---- MODULE Spec2Model ----
(***************************************************************************)
(* A model of src/useUpload.ts: the useUpload() hook.  One hook instance   *)
(* owns the refs progress/uploading/uploadedChunks/paused and the closure  *)
(* variables cancelTokens/fileHash/fileName/totalChunks.  Every call of    *)
(* uploadFile is a "run": an async function instance with its own locals   *)
(* (file, chunks, tasks, i, the workers).  JavaScript is single threaded:  *)
(* an action is the code executed between two suspension points (the       *)
(* awaits at lines 75, 98, 110, 129 and 133).                              *)
(***************************************************************************)
EXTENDS Integers, Sequences, FiniteSets, TLC

\* ------------------------------------------------------------------ bounds
MaxRuns == 2          \* calls of uploadFile (direct or through resumeUpload)
MaxConcurrent == 2    \* largest value of options.concurrent explored
MaxChunks == 2        \* number of chunks of the largest file explored
ChunkSizeOpt == 2     \* options.chunkSize, in bytes
ProgressSteps == 1    \* e.total of an upload-progress event (e.loaded in 1..e.total)
MaxFileSize == 12     \* largest file.size given to createChunks on its own
MaxChunkSize == 8     \* largest options.chunkSize given to createChunks on its own

\* progress is held in units of 1/Unit percent so that every increment
\* (e.loaded / e.total) * (100 / totalChunks) of the model is an integer
Unit == 2 * 3 * 4 * 5
Hundred == 100 * Unit

\* localStorage.getItem: <<>> for null, <<string>> for a stored string
Null == <<>>
NoHash == <<>>

\* The files a caller may pass: a name and the bytes (file.size = Len(bytes)).
\* "a": MaxChunks chunks, the last one short; "b": one full chunk.
Files ==
  { [name |-> "a", bytes |-> [k \in 1..((MaxChunks - 1) * ChunkSizeOpt + 1) |-> k]],
    [name |-> "b", bytes |-> [k \in 1..ChunkSizeOpt |-> 0]] }

NoFile == [name |-> "", bytes |-> <<>>]

RunIds == 1..MaxRuns
WorkerIds == 1..MaxConcurrent

Min(a, b) == IF a < b THEN a ELSE b

\* ------------------------------------------------------------ pure helpers

chunkSize == ChunkSizeOpt

\* the loop without Math.min: const end = start + chunkSize
RECURSIVE CreateChunksLoop_NoClamp(_, _, _, _, _)
CreateChunksLoop_NoClamp(size, cs, start, index, chunks) ==
  IF start < size
    THEN LET end == start + cs
         IN  CreateChunksLoop_NoClamp(size, cs, end, index + 1,
               Append(chunks, [index |-> index, start |-> start, end |-> end]))
    ELSE chunks

\* lines 34-39, for file.size = size and chunkSize = cs; a task is its index
\* and the byte range [start, end) of its blob file.slice(start, end)
RECURSIVE CreateChunksLoop(_, _, _, _, _)
CreateChunksLoop(size, cs, start, index, chunks) ==
  IF start < size
    THEN LET end == Min(start + cs, size)
         IN  CreateChunksLoop(size, cs, end, index + 1,
               Append(chunks, [index |-> index, start |-> start, end |-> end]))
    ELSE chunks

createChunks(file) == CreateChunksLoop(Len(file.bytes), chunkSize, 0, 0, <<>>)

\* SparkMD5 over the whole content: a function of the bytes only.
calcFileHash(file) == <<"md5", file.bytes>>

StorageKey(hash) == <<"upload_", hash>>

Hashes == { calcFileHash(f) : f \in Files }
Keys == { StorageKey(h) : h \in Hashes }

JSONstringify(arr) == [json |-> arr]
JSONparse(str) == str.json

Includes(arr, x) == \E k \in 1..Len(arr) : arr[k] = x
ToSet(arr) == { arr[k] : k \in 1..Len(arr) }

\* Array.from(new Set(arr)): first occurrences, in order
RECURSIVE Dedup(_, _)
Dedup(arr, acc) ==
  IF arr = <<>> THEN acc
  ELSE Dedup(Tail(arr), IF Includes(acc, Head(arr)) THEN acc ELSE Append(acc, Head(arr)))

ArrayFromSet(arr) == Dedup(arr, <<>>)

\* chunks.filter((c) => !uploadedChunks.value.includes(c.index))
RECURSIVE FilterTasks(_, _)
FilterTasks(chunks, uploaded) ==
  IF chunks = <<>> THEN <<>>
  ELSE IF Includes(uploaded, Head(chunks).index)
         THEN FilterTasks(Tail(chunks), uploaded)
         ELSE <<Head(chunks)>> \o FilterTasks(Tail(chunks), uploaded)

\* the server's reply to /upload/check: the indices it holds, ascending
RECURSIVE SortedSeq(_)
SortedSeq(S) ==
  IF S = {} THEN <<>>
  ELSE LET m == CHOOSE x \in S : \A y \in S : x <= y
       IN  <<m>> \o SortedSeq(S \ {m})

\* onUploadProgress: (e.loaded / e.total) * (100 / totalChunks); a division
\* by totalChunks = 0 is Infinity in JavaScript, clamped by Math.min below
Percent(loaded, total, n) ==
  IF n = 0 THEN Hundred ELSE (loaded * Hundred) \div (total * n)

\* ---------------------------------------------------------------- state

VARIABLES
  concurrent,      \* options.concurrent || 3
  progress, uploading, uploadedChunks, paused,   \* the refs
  cancelTokens,    \* cancelers pushed and not yet cleared, as <<run, worker>>
  fileHash, fileName, totalChunks,               \* closure variables
  localStorage,    \* key -> <<string>> or Null
  serverChunks,    \* hash -> chunk indices the server holds
  nruns,           \* calls of uploadFile so far
  pc,              \* run -> where that call of uploadFile is
  runFile,         \* run -> the file argument
  saved,           \* run -> the local "saved" (line 104)
  reply,           \* run -> the local "uploaded" (line 110)
  tasks,           \* run -> the local "tasks"
  cursor,          \* run -> the local "i"
  wstate,          \* run -> worker -> "none" | "inflight" | "done" | "failed"
  wtask,           \* run -> worker -> the chunk index of its request
  wloaded,         \* run -> worker -> e.loaded last reported for its request
  whash,           \* run -> worker -> the fileHash its request carries
  plan,            \* a call of createChunks on its own: its inputs and result
  \* ---- observation only (never read by an action's guard or effect)
  sessionId,       \* number of direct uploadFile calls (a new selection)
  runSession,      \* run -> sessionId when it was started
  sendCount,       \* run -> chunk index -> chunk requests issued
  failLog,         \* run -> {<<index, kind>>} chunk sends that failed
  mergeLog,        \* merge requests issued
  confirmedAt,     \* run -> the indices of uploadedChunks at line 119
  lastDone,        \* the run whose merge succeeded last, 0 after a new call
  overlap          \* uploadFile was called while an earlier run was not over

prog == <<progress, uploading, uploadedChunks, paused>>
closure == <<cancelTokens, fileHash, fileName, totalChunks>>
env == <<localStorage, serverChunks>>
runs == <<nruns, pc, runFile, saved, reply, tasks, cursor>>
workers == <<wstate, wtask, wloaded, whash>>
obs == <<sessionId, runSession, sendCount, failLog, mergeLog, confirmedAt, lastDone,
         overlap>>

vars == <<plan, concurrent, prog, closure, env, runs, workers, obs>>

Indices == 0..(MaxChunks - 1)

\* What an earlier page session can have left behind for a file: the server
\* holds some of its chunks, and localStorage holds either nothing or a
\* record listing some of the chunks the server acknowledged.
PriorServer(f) == SUBSET (0..(Len(createChunks(f)) - 1))
PriorRecords(held) == {Null} \cup { <<JSONstringify(SortedSeq(c))>> : c \in (SUBSET held) \ {{}} }

PriorStates ==
  { p \in [Hashes -> SUBSET Indices] \X [Keys -> PriorRecords(Indices)] :
      /\ \A f \in Files : p[1][calcFileHash(f)] \in PriorServer(f)
      /\ \A h \in Hashes : p[2][StorageKey(h)] \in PriorRecords(p[1][h]) }

\* createChunks not called on its own
NoPlan == [size |-> 0, chunkSize |-> ChunkSizeOpt, called |-> FALSE, chunks |-> <<>>]

\* the hook after useUpload(options) returned
InitHook ==
  /\ concurrent \in 1..MaxConcurrent
  /\ progress = 0
  /\ uploading = FALSE
  /\ uploadedChunks = <<>>
  /\ paused = FALSE
  /\ cancelTokens = {}
  /\ fileHash = NoHash
  /\ fileName = ""
  /\ totalChunks = 0
  /\ \E prior \in PriorStates : serverChunks = prior[1] /\ localStorage = prior[2]
  /\ nruns = 0
  /\ pc = [r \in RunIds |-> "none"]
  /\ runFile = [r \in RunIds |-> NoFile]
  /\ saved = [r \in RunIds |-> Null]
  /\ reply = [r \in RunIds |-> <<>>]
  /\ tasks = [r \in RunIds |-> <<>>]
  /\ cursor = [r \in RunIds |-> 0]
  /\ wstate = [r \in RunIds |-> [w \in WorkerIds |-> "none"]]
  /\ wtask = [r \in RunIds |-> [w \in WorkerIds |-> 0]]
  /\ wloaded = [r \in RunIds |-> [w \in WorkerIds |-> 0]]
  /\ whash = [r \in RunIds |-> [w \in WorkerIds |-> NoHash]]
  /\ sessionId = 0
  /\ runSession = [r \in RunIds |-> 0]
  /\ sendCount = [r \in RunIds |-> [k \in Indices |-> 0]]
  /\ failLog = [r \in RunIds |-> {}]
  /\ mergeLog = {}
  /\ confirmedAt = [r \in RunIds |-> {}]
  /\ lastDone = 0
  /\ overlap = FALSE

Init == InitHook /\ plan = NoPlan

\* ------------------------------------------------------- the code's tests

\* the loop test without the pause flag: while (i < tasks.length)
WorkerContinues_IgnoresPause(i, ntasks, isPaused) == i < ntasks

\* the loop test one short: while (i < tasks.length - 1 && !paused.value)
WorkerContinues_OneShort(i, ntasks, isPaused) == i + 1 < ntasks /\ ~isPaused

\* line 123: while (i < tasks.length && !paused.value)
WorkerContinues(i, ntasks, isPaused) == i < ntasks /\ ~isPaused

\* the claim without the cursor: const current = tasks[0]
ClaimedTask_First(ts, i) == ts[1]

\* line 124: const current = tasks[i++], the task read (i counts from 0)
ClaimedTask(ts, i) == ts[i + 1]

\* the index recorded although its request was rejected
AfterReject_Recorded(arr, index) == Append(arr, index)

\* line 75 throws: lines 85-89 are skipped, uploadedChunks is left as it is
AfterReject(arr, index) == arr

\* the merge test inverted: if (paused.value)
MayMerge_Inverted(isPaused) == isPaused

\* line 131: if (!paused.value)
MayMerge(isPaused) == ~isPaused

\* the tasks without the filter: every chunk is sent again
PendingTasks_Unfiltered(file, uploaded) == createChunks(file)

\* line 119: the tasks of a run
PendingTasks(file, uploaded) == FilterTasks(createChunks(file), uploaded)

\* lines 104-107: the confirmed set after reading the durable record
AfterLoad(current, item) == IF item # Null THEN JSONparse(item[1]) ELSE current

\* lines 114-116
AfterCheck(current, uploaded) == ArrayFromSet(current \o uploaded)

\* line 80
AddProgress(p, percent) == Min(Hundred, p + percent)

\* the body of the merge request of run r (lines 133-137), with the confirmed
\* indices at the time it is issued
MergeRequest(r, arr) ==
  [run |-> r, fileHash |-> fileHash, filename |-> fileName, totalChunks |-> totalChunks,
   confirmed |-> ToSet(arr), session |-> runSession[r]]

Active(r) == { w \in WorkerIds : wstate[r][w] # "none" }
InFlight == { rw \in RunIds \X WorkerIds : wstate[rw[1]][rw[2]] = "inflight" }

\* run r has not settled, or a worker of it still has a request in flight
Running(r) ==
  \/ pc[r] \in {"hashing", "checking", "uploading", "merging"}
  \/ \E w \in WorkerIds : wstate[r][w] = "inflight"

\* ---------------------------------------------------------------- actions

\* uploadFile(file), lines 94-98: up to the await of calcFileHash
StartRun(f) ==
  /\ nruns < MaxRuns
  /\ nruns' = nruns + 1
  /\ uploading' = TRUE
  /\ paused' = FALSE
  /\ progress' = 0
  /\ pc' = [pc EXCEPT ![nruns + 1] = "hashing"]
  /\ runFile' = [runFile EXCEPT ![nruns + 1] = f]
  /\ overlap' = (overlap \/ \E r \in RunIds : Running(r))
  /\ UNCHANGED <<plan, concurrent, uploadedChunks, closure, env, saved, reply, tasks, cursor,
                 workers, sendCount, failLog, mergeLog, confirmedAt>>

UploadFile(f) ==
  /\ StartRun(f)
  /\ sessionId' = sessionId + 1
  /\ runSession' = [runSession EXCEPT ![nruns + 1] = sessionId + 1]
  /\ lastDone' = 0

\* resumeUpload(file), lines 152-156
ResumeUpload(f) ==
  /\ paused
  /\ StartRun(f)
  /\ runSession' = [runSession EXCEPT ![nruns + 1] = sessionId]
  /\ lastDone' = 0
  /\ UNCHANGED sessionId

\* calcFileHash resolved: lines 98-110, up to the await of /upload/check
HashDone(r) ==
  /\ pc[r] = "hashing"
  /\ LET h == calcFileHash(runFile[r])
         item == localStorage[StorageKey(h)]
     IN  /\ fileHash' = h
         /\ fileName' = runFile[r].name
         /\ totalChunks' = Len(createChunks(runFile[r]))
         /\ saved' = [saved EXCEPT ![r] = item]
         /\ uploadedChunks' = AfterLoad(uploadedChunks, item)
  /\ pc' = [pc EXCEPT ![r] = "checking"]
  /\ UNCHANGED <<plan, concurrent, progress, uploading, paused, cancelTokens, env, nruns, runFile,
                 reply, tasks, cursor, workers, obs>>

\* calcFileHash rejected (reader.onerror, or an empty result): uploadFile throws
HashFail(r) ==
  /\ pc[r] = "hashing"
  /\ pc' = [pc EXCEPT ![r] = "rejected"]
  /\ UNCHANGED <<plan, concurrent, prog, closure, env, nruns, runFile, saved, reply, tasks, cursor,
                 workers, obs>>

\* /upload/check answered: lines 110-129, the workers' first pass of their
\* loop (each claims a task and issues its request, or returns), and, when
\* every worker returned at once, lines 131-133
CheckDone(r) ==
  /\ pc[r] = "checking"
  /\ \E uploaded \in {SortedSeq(serverChunks[calcFileHash(runFile[r])])} :
     \E confirmed \in {AfterCheck(uploadedChunks, uploaded)} :
     \E ts \in {PendingTasks(runFile[r], confirmed)} :
     \* worker w claims iff the w-1 before it claimed and the loop test passes
     \E claimed \in {{ w \in WorkerIds :
                         w <= concurrent /\ WorkerContinues(w - 1, Len(ts), paused) }} :
     \E n \in {Cardinality(claimed)} :
         /\ reply' = [reply EXCEPT ![r] = uploaded]
         /\ uploadedChunks' = confirmed
         /\ confirmedAt' = [confirmedAt EXCEPT ![r] = ToSet(confirmed)]
         /\ tasks' = [tasks EXCEPT ![r] = ts]
         /\ cursor' = [cursor EXCEPT ![r] = n]
         /\ wstate' = [wstate EXCEPT ![r] = [w \in WorkerIds |->
                          IF w \in claimed THEN "inflight"
                          ELSE IF w <= concurrent THEN "done" ELSE "none"]]
         /\ wtask' = [wtask EXCEPT ![r] = [w \in WorkerIds |->
                          IF w \in claimed THEN ClaimedTask(ts, w - 1).index ELSE 0]]
         /\ wloaded' = [wloaded EXCEPT ![r] = [w \in WorkerIds |-> 0]]
         /\ whash' = [whash EXCEPT ![r] = [w \in WorkerIds |->
                          IF w \in claimed THEN fileHash ELSE NoHash]]
         /\ cancelTokens' = cancelTokens \cup { <<r, w>> : w \in claimed }
         /\ sendCount' = [sendCount EXCEPT ![r] = [k \in Indices |->
                          @[k] + Cardinality({ w \in claimed : ClaimedTask(ts, w - 1).index = k })]]
         /\ IF n > 0
              THEN /\ pc' = [pc EXCEPT ![r] = "uploading"]
                   /\ UNCHANGED mergeLog
              ELSE IF MayMerge(paused)
                THEN /\ pc' = [pc EXCEPT ![r] = "merging"]
                     /\ mergeLog' = mergeLog \cup {MergeRequest(r, confirmed)}
                ELSE /\ pc' = [pc EXCEPT ![r] = "returned"]
                     /\ UNCHANGED mergeLog
  /\ UNCHANGED <<plan, concurrent, progress, uploading, paused, fileHash, fileName, totalChunks,
                 env, nruns, runFile, saved, sessionId, runSession, failLog, lastDone, overlap>>

\* /upload/check rejected: the await at line 110 throws, uploadFile rejects
CheckFail(r) ==
  /\ pc[r] = "checking"
  /\ pc' = [pc EXCEPT ![r] = "rejected"]
  /\ UNCHANGED <<plan, concurrent, prog, closure, env, nruns, runFile, saved, reply, tasks, cursor,
                 workers, obs>>

\* onUploadProgress of an in-flight chunk request, lines 77-82
ChunkProgress(r, w, loaded) ==
  /\ wstate[r][w] = "inflight"
  /\ loaded > wloaded[r][w]
  /\ wloaded' = [wloaded EXCEPT ![r][w] = loaded]
  /\ progress' = AddProgress(progress, Percent(loaded, ProgressSteps, totalChunks))
  /\ UNCHANGED <<plan, concurrent, uploading, uploadedChunks, paused, closure, env, runs,
                 wstate, wtask, whash, obs>>

\* Promise.all settled with every worker returned, lines 129-133: the pc of
\* run r and the merge request it issues, if any
AfterWorkers(r) ==
  IF MayMerge(paused)
    THEN /\ pc' = [pc EXCEPT ![r] = "merging"]
         /\ mergeLog' = mergeLog \cup {MergeRequest(r, uploadedChunks')}
    ELSE /\ pc' = [pc EXCEPT ![r] = "returned"]
         /\ UNCHANGED mergeLog

\* a chunk request answered 2xx: lines 85-89, then the worker's next pass of
\* its loop (lines 123-125 and 63-75), then lines 129-133 if it was the last
ChunkAck(r, w) ==
  /\ wstate[r][w] = "inflight"
  /\ serverChunks' = [serverChunks EXCEPT ![whash[r][w]] = @ \cup {wtask[r][w]}]
  /\ uploadedChunks' = Append(uploadedChunks, wtask[r][w])
  /\ localStorage' = [localStorage EXCEPT ![StorageKey(fileHash)] =
                         <<JSONstringify(uploadedChunks')>>]
  /\ IF WorkerContinues(cursor[r], Len(tasks[r]), paused)
       THEN LET current == ClaimedTask(tasks[r], cursor[r])
            IN  /\ cursor' = [cursor EXCEPT ![r] = @ + 1]
                /\ wtask' = [wtask EXCEPT ![r][w] = current.index]
                /\ wloaded' = [wloaded EXCEPT ![r][w] = 0]
                /\ whash' = [whash EXCEPT ![r][w] = fileHash]
                /\ cancelTokens' = cancelTokens \cup {<<r, w>>}
                /\ sendCount' = [sendCount EXCEPT ![r][current.index] = @ + 1]
                /\ UNCHANGED <<wstate, pc, mergeLog>>
       ELSE /\ wstate' = [wstate EXCEPT ![r][w] = "done"]
            /\ wtask' = [wtask EXCEPT ![r][w] = 0]
            /\ wloaded' = [wloaded EXCEPT ![r][w] = 0]
            /\ whash' = [whash EXCEPT ![r][w] = NoHash]
            /\ IF pc[r] = "uploading" /\ \A v \in Active(r) \ {w} : wstate[r][v] = "done"
                 THEN AfterWorkers(r)
                 ELSE UNCHANGED <<pc, mergeLog>>
            /\ UNCHANGED <<cursor, cancelTokens, sendCount>>
  /\ UNCHANGED <<plan, concurrent, progress, uploading, paused, fileHash, fileName, totalChunks,
                 nruns, runFile, saved, reply, tasks, sessionId, runSession, failLog,
                 confirmedAt, lastDone, overlap>>

FailureKinds == {"transient", "fatal"}

\* a chunk request failed (network error or 5xx: "transient"; 4xx: "fatal"):
\* the await at line 75 throws, the worker rejects, Promise.all rejects and
\* uploadFile throws at line 129; the other workers keep running
ChunkFail(r, w, kind) ==
  /\ wstate[r][w] = "inflight"
  /\ wstate' = [wstate EXCEPT ![r][w] = "failed"]
  /\ wtask' = [wtask EXCEPT ![r][w] = 0]
  /\ wloaded' = [wloaded EXCEPT ![r][w] = 0]
  /\ whash' = [whash EXCEPT ![r][w] = NoHash]
  /\ failLog' = [failLog EXCEPT ![r] = @ \cup {<<wtask[r][w], kind>>}]
  /\ pc' = [pc EXCEPT ![r] = IF @ = "uploading" THEN "rejected" ELSE @]
  /\ uploadedChunks' = AfterReject(uploadedChunks, wtask[r][w])
  /\ UNCHANGED <<plan, concurrent, progress, uploading, paused, closure, env, nruns, runFile, saved,
                 reply, tasks, cursor, sessionId, runSession, sendCount, mergeLog, confirmedAt,
                 lastDone, overlap>>

\* pauseUpload(), lines 145-149.  Every cancelled request rejects at line 75;
\* the server may nonetheless have stored some of them (the set "stored")
PauseUpload(stored) ==
  LET cancelled == cancelTokens \cap InFlight
  IN  /\ stored \subseteq cancelled
      /\ paused' = TRUE
      /\ cancelTokens' = {}
      /\ wstate' = [r \in RunIds |-> [w \in WorkerIds |->
                      IF <<r, w>> \in cancelled THEN "failed" ELSE wstate[r][w]]]
      /\ wtask' = [r \in RunIds |-> [w \in WorkerIds |->
                      IF <<r, w>> \in cancelled THEN 0 ELSE wtask[r][w]]]
      /\ wloaded' = [r \in RunIds |-> [w \in WorkerIds |->
                      IF <<r, w>> \in cancelled THEN 0 ELSE wloaded[r][w]]]
      /\ whash' = [r \in RunIds |-> [w \in WorkerIds |->
                      IF <<r, w>> \in cancelled THEN NoHash ELSE whash[r][w]]]
      /\ failLog' = [r \in RunIds |->
                      failLog[r] \cup { <<wtask[r][w], "cancel">> :
                                         w \in { v \in WorkerIds : <<r, v>> \in cancelled } }]
      /\ pc' = [r \in RunIds |->
                      IF pc[r] = "uploading" /\ \E w \in WorkerIds : <<r, w>> \in cancelled
                        THEN "rejected" ELSE pc[r]]
      /\ serverChunks' = [h \in Hashes |->
                      serverChunks[h] \cup
                        { wtask[rw[1]][rw[2]] : rw \in { x \in stored : whash[x[1]][x[2]] = h } }]
      /\ UNCHANGED <<plan, concurrent, progress, uploading, uploadedChunks, fileHash, fileName,
                     totalChunks, localStorage, nruns, runFile, saved, reply, tasks, cursor,
                     sessionId, runSession, sendCount, mergeLog, confirmedAt, lastDone, overlap>>

\* /upload/merge answered 2xx: lines 138-140
MergeDone(r) ==
  /\ pc[r] = "merging"
  /\ uploading' = FALSE
  /\ progress' = Hundred
  /\ localStorage' = [localStorage EXCEPT ![StorageKey(fileHash)] = Null]
  /\ pc' = [pc EXCEPT ![r] = "done"]
  /\ lastDone' = r
  /\ UNCHANGED <<plan, concurrent, uploadedChunks, paused, closure, serverChunks, nruns, runFile,
                 saved, reply, tasks, cursor, workers, sessionId, runSession, sendCount,
                 failLog, mergeLog, confirmedAt, overlap>>

\* the rejection caught and lines 139-140 run all the same
MergeFail_Finishes(r) ==
  /\ pc[r] = "merging"
  /\ pc' = [pc EXCEPT ![r] = "rejected"]
  /\ progress' = Hundred
  /\ localStorage' = [localStorage EXCEPT ![StorageKey(fileHash)] = Null]
  /\ UNCHANGED <<plan, concurrent, uploading, uploadedChunks, paused, closure, serverChunks, nruns,
                 runFile, saved, reply, tasks, cursor, workers, obs>>

\* /upload/merge rejected: the await at line 133 throws, uploadFile rejects
MergeFail(r) ==
  /\ pc[r] = "merging"
  /\ pc' = [pc EXCEPT ![r] = "rejected"]
  /\ UNCHANGED <<plan, concurrent, prog, closure, env, nruns, runFile, saved, reply, tasks, cursor,
                 workers, obs>>

Next ==
  \/ \E f \in Files : UploadFile(f)
  \/ \E f \in Files : ResumeUpload(f)
  \/ \E r \in RunIds : HashDone(r)
  \/ \E r \in RunIds : HashFail(r)
  \/ \E r \in RunIds : CheckDone(r)
  \/ \E r \in RunIds : CheckFail(r)
  \/ \E r \in RunIds, w \in WorkerIds, l \in 1..ProgressSteps : ChunkProgress(r, w, l)
  \/ \E r \in RunIds, w \in WorkerIds : ChunkAck(r, w)
  \/ \E r \in RunIds, w \in WorkerIds, k \in FailureKinds : ChunkFail(r, w, k)
  \/ \E s \in SUBSET (cancelTokens \cap InFlight) : PauseUpload(s)
  \/ \E r \in RunIds : MergeDone(r)
  \/ \E r \in RunIds : MergeFail(r)

Spec == Init /\ [][Next]_vars

\* One session of one file on a server that acknowledges every request:
\* uploadFile once, then pauseUpload and resumeUpload(the same file) at will.
NextSession ==
  \/ \E f \in Files : nruns = 0 /\ UploadFile(f)
  \/ nruns > 0 /\ ResumeUpload(runFile[1])
  \/ \E r \in RunIds : HashDone(r)
  \/ \E r \in RunIds : CheckDone(r)
  \/ \E r \in RunIds, w \in WorkerIds, l \in 1..ProgressSteps : ChunkProgress(r, w, l)
  \/ \E r \in RunIds, w \in WorkerIds : ChunkAck(r, w)
  \/ \E s \in SUBSET (cancelTokens \cap InFlight) : PauseUpload(s)
  \/ \E r \in RunIds : MergeDone(r)

SpecSession == Init /\ [][NextSession]_vars

\* One call of uploadFile, never paused, every request answered.  Fairness:
\* while an answer (or event) is pending, one of them eventually arrives.
NextLive ==
  \/ \E f \in Files : nruns = 0 /\ UploadFile(f)
  \/ \E r \in RunIds : HashDone(r)
  \/ \E r \in RunIds : CheckDone(r)
  \/ \E r \in RunIds, w \in WorkerIds, l \in 1..ProgressSteps : ChunkProgress(r, w, l)
  \/ \E r \in RunIds, w \in WorkerIds : ChunkAck(r, w)
  \/ \E r \in RunIds : MergeDone(r)

SpecLive ==
  /\ Init
  /\ [][NextLive]_vars
  /\ WF_vars(NextLive)

\* createChunks alone: a hook built with options.chunkSize = C is handed a
\* file of size S, for every S in 0..MaxFileSize and C in 1..MaxChunkSize.
PlanInputs ==
  { [size |-> S, chunkSize |-> C, called |-> FALSE, chunks |-> <<>>] :
      S \in 0..MaxFileSize, C \in 1..MaxChunkSize }

InitChunks == InitHook /\ plan \in PlanInputs

\* createChunks(file), lines 30-41
PlanChunks ==
  /\ ~plan.called
  /\ plan' = [plan EXCEPT !.called = TRUE,
                          !.chunks = CreateChunksLoop(plan.size, plan.chunkSize, 0, 0, <<>>)]
  /\ UNCHANGED <<concurrent, prog, closure, env, runs, workers, obs>>

NextChunks == PlanChunks

SpecChunks == InitChunks /\ [][NextChunks]_vars

\* ------------------------------------------------------------------ claims

FileIndices(file) == 0..(Len(createChunks(file)) - 1)
Sent(r) == { k \in Indices : sendCount[r][k] > 0 }
Scheduled(r) == pc[r] \in {"uploading", "merging", "returned", "done"}

\* C1: a merge request is issued only when uploadedChunks holds every chunk
\* index of the file of the run that issues it.
C1_MergeOnlyWhenComplete ==
  \A m \in mergeLog : FileIndices(runFile[m.run]) \subseteq m.confirmed

\* C2: the confirmed set a run filters its tasks with is exactly the durable
\* record read for its fingerprint (empty if none) joined with the indices
\* the server check reported.  Stated for calls of uploadFile made one after
\* the other (each after the previous run and its workers were over).
C2_ConfirmedIsRecordAndReply ==
  \A r \in RunIds :
    (Scheduled(r) /\ ~overlap) =>
      confirmedAt[r] = ToSet(AfterLoad(<<>>, saved[r])) \cup ToSet(reply[r])

\* C3: a run sends no chunk whose index is in the confirmed set at scheduling
\* time; it sends only indices of [0, totalChunks) outside that set.
C3_NoSendOfConfirmed ==
  \A r \in RunIds :
    /\ Sent(r) \cap confirmedAt[r] = {}
    /\ Sent(r) \subseteq FileIndices(runFile[r]) \ confirmedAt[r]

\* a run resumed with part of the file confirmed has sent the rest
C3_Witness ==
  \E r \in RunIds :
    /\ confirmedAt[r] \cap FileIndices(runFile[r]) # {}
    /\ Sent(r) # {}
    /\ runSession[r] = sessionId /\ r > 1

\* C4: while paused is set (from pauseUpload until the next resumeUpload or
\* uploadFile) no task is claimed, no chunk request and no merge request is
\* issued.
C4_NoWorkWhilePaused ==
  [][paused => (cursor' = cursor /\ sendCount' = sendCount /\ mergeLog' = mergeLog)]_vars

\* paused with a task of some run still unclaimed
C4_Witness ==
  /\ paused
  /\ \E r \in RunIds : cursor[r] < Len(tasks[r])

\* C5: in one session on an acknowledging server, whatever pauses and
\* resumes happened, a run that ends Done ends with the confirmed set equal
\* to all indices of the file, as a run that was never paused does.
C5_PauseResumeSameSet ==
  \A r \in RunIds :
    (pc[r] = "done" /\ \A q \in RunIds : ~Running(q)) =>
      ToSet(uploadedChunks) = FileIndices(runFile[r])

\* a run ended Done after an earlier run of the session was cancelled by
\* pauseUpload with a request in flight
C5_Witness ==
  \E r \in RunIds :
    /\ pc[r] = "done"
    /\ \A q \in RunIds : ~Running(q)
    /\ \E q \in RunIds, k \in Indices : q < r /\ <<k, "cancel">> \in failLog[q]

\* C6: within one session (no new direct call of uploadFile) progress never
\* decreases.
C6_ProgressMonotonic ==
  [][sessionId' = sessionId => progress' >= progress]_vars

\* C7: progress is 100 only once the merge request of the current session
\* has succeeded.
C7_HundredOnlyAfterMerge ==
  progress = Hundred => \E r \in RunIds : pc[r] = "done" /\ runSession[r] = sessionId

\* C8: when a session is Done (its merge succeeded, uploading false, progress
\* 100, no upload started since) there is no durable record under its key.
C8_NoRecordWhenDone ==
  (lastDone # 0 /\ ~uploading /\ progress = Hundred) =>
    localStorage[StorageKey(calcFileHash(runFile[lastDone]))] = Null

LiveDone ==
  /\ pc[1] = "done"
  /\ ~uploading
  /\ ToSet(uploadedChunks) = FileIndices(runFile[1])
  /\ Cardinality(mergeLog) = 1
  /\ \A m \in mergeLog : m.totalChunks = Len(createChunks(runFile[1]))

\* C9: a single call of uploadFile that is never paused and whose requests
\* all succeed eventually reaches Done: all chunks confirmed, one merge
\* request carrying the planned totalChunks, uploading false.
C9_EventuallyDone == (pc[1] = "hashing") ~> LiveDone

\* Done for the largest file with the largest pool, nothing confirmed before
C9_Witness ==
  /\ LiveDone
  /\ concurrent = MaxConcurrent
  /\ Len(tasks[1]) = MaxChunks

\* C10: a run fails on a transient chunk failure only after that index was
\* sent again at least once.
C10_RetryBeforeFailed ==
  \A r \in RunIds, k \in Indices :
    (pc[r] = "rejected" /\ <<k, "transient">> \in failLog[r]) => sendCount[r][k] >= 2

\* C11: a failure of the remote check does not fail the run: a run waiting
\* for the answer of /upload/check never goes from there to rejected (it goes
\* on to schedule its tasks from the local record).
C11_CheckFailureNotFatal ==
  [][\A r \in RunIds : pc[r] = "checking" => pc'[r] # "rejected"]_vars

FatallyFailed(r) == \E k \in Indices : <<k, "fatal">> \in failLog[r]

\* C12: once a chunk send of a run has failed with a non-retryable error,
\* the session is Failed: uploading is false (as long as no later call of
\* uploadFile started), the run issues no further chunk request, and it
\* issues no merge request.
C12_FatalFailureAborts ==
  [][\A r \in RunIds :
       FatallyFailed(r)' =>
         /\ (nruns' = r => ~uploading')
         /\ (FatallyFailed(r) => sendCount'[r] = sendCount[r])
         /\ \A m \in mergeLog' : m.run # r]_vars

TaskIndices(r) == { tasks[r][j].index : j \in 1..Len(tasks[r]) }

\* C13: within one run no chunk index is claimed (and sent) twice, two
\* workers of the run never hold a request for the same index, and a run
\* that went on to merge (not paused, no worker failed) claimed every one of
\* its pending tasks.
C13_EachTaskClaimedOnce ==
  \A r \in RunIds :
    /\ \A k \in Indices : sendCount[r][k] <= 1
    /\ \A v, w \in WorkerIds :
         (v # w /\ wstate[r][v] = "inflight" /\ wstate[r][w] = "inflight") =>
           wtask[r][v] # wtask[r][w]
    /\ (\E m \in mergeLog : m.run = r) =>
         (cursor[r] = Len(tasks[r]) /\ Sent(r) = TaskIndices(r))

\* a run of the largest pool went on to merge after claiming MaxChunks tasks
C13_Witness ==
  \E r \in RunIds :
    /\ concurrent = MaxConcurrent
    /\ Len(tasks[r]) = MaxChunks
    /\ \E m \in mergeLog : m.run = r

\* C14: an index enters uploadedChunks and the durable record through a
\* worker only in the step that acknowledges its request (the server holds
\* the chunk); a step in which a request fails or is cancelled by pauseUpload
\* changes neither uploadedChunks nor the durable records.
C14_RecordedOnlyAfterAck ==
  [][/\ (\E r \in RunIds, w \in WorkerIds :
           wstate[r][w] = "inflight" /\ wstate'[r][w] = "failed") =>
          (uploadedChunks' = uploadedChunks /\ localStorage' = localStorage)
     /\ \A key \in Keys :
          (localStorage'[key] # localStorage[key] /\ localStorage'[key] # Null) =>
            \E r \in RunIds, w \in WorkerIds :
              /\ wstate[r][w] = "inflight"
              /\ wstate'[r][w] # "failed"
              /\ wtask[r][w] \in serverChunks'[whash[r][w]]
              /\ uploadedChunks' = Append(uploadedChunks, wtask[r][w])
              /\ JSONparse(localStorage'[key][1]) = uploadedChunks']_vars

\* a run that started with nothing confirmed had one request acknowledged
\* and recorded and another cancelled by pauseUpload and not recorded
C14_Witness ==
  \E r \in RunIds, k, j \in Indices :
    /\ <<k, "cancel">> \in failLog[r]
    /\ ~Includes(uploadedChunks, k)
    /\ confirmedAt[r] = {}
    /\ Includes(uploadedChunks, j)
    /\ localStorage[StorageKey(fileHash)] = <<JSONstringify(uploadedChunks)>>

PipelineActive(r) == pc[r] \in {"hashing", "checking", "uploading", "merging"}

\* C15: at most one run of the pipeline is active at a time, whatever calls
\* of uploadFile, pauseUpload and resumeUpload were made; hence no chunk
\* index is in flight for two runs at once and no two merge requests are
\* pending at once.
C15_OneActiveRun ==
  /\ Cardinality({ r \in RunIds : PipelineActive(r) }) <= 1
  /\ \A q, r \in RunIds, v, w \in WorkerIds :
       (q # r /\ wstate[q][v] = "inflight" /\ wstate[r][w] = "inflight"
          /\ whash[q][v] = whash[r][w]) => wtask[q][v] # wtask[r][w]
  /\ Cardinality({ r \in RunIds : pc[r] = "merging" }) <= 1

NoDuplicate(arr) == \A i, j \in 1..Len(arr) : arr[i] = arr[j] => i = j

\* a step that writes a durable record leaves it and uploadedChunks without
\* duplicates, equal as sets, and keeps every index the record held before
RecordingExact ==
  \A key \in Keys :
    (localStorage'[key] # localStorage[key] /\ localStorage'[key] # Null) =>
      LET rec == JSONparse(localStorage'[key][1])
      IN  /\ NoDuplicate(rec)
          /\ NoDuplicate(uploadedChunks')
          /\ ToSet(rec) = ToSet(uploadedChunks')
          /\ localStorage[key] # Null =>
               ToSet(JSONparse(localStorage[key][1])) \subseteq ToSet(rec)

\* C16: after each recording by a worker the durable record holds exactly
\* the distinct indices confirmed so far: no index recorded earlier is lost,
\* and no index appears twice in the record or in uploadedChunks.
C16_RecordExact == [][RecordingExact]_vars

\* the merge request of run r was rejected
MergeFailed(r) == pc[r] = "rejected" /\ \E m \in mergeLog : m.run = r

\* C17: the step in which the merge request of a run fails rejects the run
\* and changes neither progress, uploading nor any durable record; a run
\* whose merge failed stays rejected (it never becomes Done) and issues no
\* further merge request.
C17_MergeFailureSurfaced ==
  [][\A r \in RunIds :
       /\ (pc[r] = "merging" /\ pc'[r] = "rejected") =>
            /\ progress' = progress
            /\ uploading' = uploading
            /\ localStorage' = localStorage
            /\ mergeLog' = mergeLog
       /\ MergeFailed(r) =>
            /\ pc'[r] = "rejected"
            /\ { m \in mergeLog' : m.run = r } = { m \in mergeLog : m.run = r }]_vars

\* the merge of a run failed with its record still stored, progress below
\* 100 and uploading still set
C17_Witness ==
  \E r \in RunIds :
    /\ MergeFailed(r)
    /\ localStorage[StorageKey(calcFileHash(runFile[r]))] # Null
    /\ progress < Hundred
    /\ uploading
    /\ Sent(r) # {}

\* C18: a run becomes Done (merge answered: progress 100, uploading false,
\* record removed) only with the paused flag clear: while paused is set, from
\* pauseUpload to the next resumeUpload or uploadFile, no run becomes Done.
C18_NoDoneWhilePaused ==
  [][\A r \in RunIds : (paused /\ pc[r] # "done") => pc'[r] # "done"]_vars

\* C19: once a file was planned (fileHash and totalChunks assigned, lines
\* 98-101) every index of uploadedChunks lies in [0, totalChunks), and within
\* one session (no new direct call of uploadFile) no step removes an index
\* from uploadedChunks.
C19_ConfirmedInRangeAndGrowing ==
  [][/\ fileHash' # NoHash => ToSet(uploadedChunks') \subseteq 0..(totalChunks' - 1)
     /\ sessionId' = sessionId => ToSet(uploadedChunks) \subseteq ToSet(uploadedChunks')]_vars

Ceiling(a, b) == IF a % b = 0 THEN a \div b ELSE (a \div b) + 1

\* C20: for a file of size S >= 0 and a chunk size C > 0, createChunks
\* returns ceil(S/C) tasks, indexed 0, 1, 2, ... in order, whose byte ranges
\* are non-empty, each starting where the previous one ends, the first at 0
\* and the last ending at S; every range but the last has length C and the
\* last has length S mod C when that is nonzero, C otherwise.
C20_ChunksCoverFile ==
  plan.called =>
    LET S == plan.size
        C == plan.chunkSize
        t == plan.chunks
        n == Len(plan.chunks)
    IN  /\ n = Ceiling(S, C)
        /\ \A j \in 1..n : t[j].index = j - 1 /\ t[j].start < t[j].end
        /\ \A j \in 1..(n - 1) : t[j].end = t[j + 1].start /\ t[j].end - t[j].start = C
        /\ n > 0 => /\ t[1].start = 0
                    /\ t[n].end = S
                    /\ t[n].end - t[n].start = (IF S % C # 0 THEN S % C ELSE C)

\* a plan of at least three tasks whose last one is short
C20_Witness ==
  /\ plan.called
  /\ Len(plan.chunks) >= 3
  /\ plan.size % plan.chunkSize # 0

====
